---- MODULE Spec2Model ----
(***************************************************************************)
(* Creational design-pattern demonstrations:                               *)
(*   Singleton_Pattern/singleton_pattern.py  (Singleton, Borg/Singleton1)  *)
(*   Builder/builder.py                      (House, HouseBuilder)         *)
(*   Factory/factory.py                      (Pet, PetFactory, get_pet)    *)
(*   Abstract_Factory/abstract__factory.py   (PetFactory families)         *)
(* Each file is modelled by its own specification over the variables it    *)
(* owns; the other variables stay at their initial values.                 *)
(***************************************************************************)
EXTENDS Integers, Sequences, FiniteSets, TLC

VARIABLES
    instance,       \* Singleton._instance: None or the stored object
    constructed,    \* number of Singleton objects object.__new__ has allocated
    calls,          \* log of completed sequential Singleton(...) calls
    pc,             \* per thread: position inside Singleton.__new__
    tmp,            \* per thread: value of super().__new__(cls) before the store
    result,         \* per thread: value returned by Singleton()
    dicts,          \* heap of dict objects; dicts[1] is Borg._shared_state
    borgs,          \* Singleton1 instances created so far: id and __dict__
    given,          \* keyword arguments of the completed Singleton1(...) calls
    objs,           \* builder.py heap: objs[1] is the HouseBuilder, then the Houses
    hist,           \* calls made on the HouseBuilder, in order
    built,          \* what each build() returned, and the builder as it was then
    lastPre,        \* the HouseBuilder's fields before the last call
    fpc,            \* factory.py: number of class/def statements executed so far
    globals,        \* factory.py: the module's global names and what they are bound to
    lastCall,       \* the last call into factory.py or abstract__factory.py and its outcome
    got,            \* results of the calls of the default-returning get_pet
    nextRef,        \* number of Pet objects allocated by those calls
    products        \* products created through the abstract factories

singletonVars == <<instance, constructed, calls, pc, tmp, result>>
borgVars == <<dicts, borgs, given>>
builderVars == <<objs, hist, built, lastPre>>
petVars == <<fpc, globals, lastCall>>
lookupVars == <<got, nextRef>>
familyVars == <<products>>

vars == <<singletonVars, borgVars, builderVars, petVars, lookupVars, familyVars>>

\* Bounds of the model
MaxCalls == 4
MaxArgs == 1
NThreads == 3
MaxBorgs == 3
MaxVal == 2
MaxSteps == 4
MaxGets == 3
MaxProducts == 3

\* Python's None, as an object reference; allocated objects are 1, 2, ...
None == 0

(***************************************************************************)
(* singleton_pattern.py: class Borg, class Singleton1                      *)
(***************************************************************************)

\* Attribute and keyword names; "_shared_state" is the name the class
\* attribute itself has.
FieldNames == {"a", "b", "_shared_state"}

\* Python values a keyword argument or a dict entry can hold: an int, or a
\* reference to a dict of the heap. Absent marks a key the dict does not have.
Absent == [tag |-> "absent", v |-> 0]
IntVal(n) == [tag |-> "int", v |-> n]
DictRef(d) == [tag |-> "dict", v |-> d]

EmptyDict == [f \in FieldNames |-> Absent]

\* The dict object the class statement binds to Borg._shared_state.
SharedStateId == 1

\* dict.update(kwargs): every given key is set, the other keys are kept.
dict_update(d, kwargs) ==
    [f \in FieldNames |-> IF kwargs[f] # Absent THEN kwargs[f] ELSE d[f]]

\* self._shared_state: "_shared_state" is a plain class attribute, so the
\* instance's __dict__ is searched first and the class only after it.
GetSharedState(heap, instDict) ==
    IF instDict # None /\ heap[instDict]["_shared_state"] # Absent
    THEN heap[instDict]["_shared_state"]
    ELSE DictRef(SharedStateId)

\* Borg.__init__: self.__dict__ = self._shared_state, on a new object whose
\* own __dict__ is still empty. Returns the instance's new __dict__.
Borg_init(heap) == GetSharedState(heap, None).v

\* Singleton1.__init__(**kwargs) on heap `heap`: the heap and the instance's
\* __dict__ afterwards, or the exception raised.
Singleton1_init(heap, kwargs) ==
    LET selfDict == Borg_init(heap)
        target == GetSharedState(heap, selfDict)
    IN  IF target.tag # "dict"
        THEN [exc |-> "AttributeError", heap |-> heap, dict |-> selfDict]
        ELSE [exc |-> "",
              heap |-> [heap EXCEPT ![target.v] = dict_update(heap[target.v], kwargs)],
              dict |-> selfDict]

\* The keyword arguments a caller may pass: each name absent, an int, or
\* (for "_shared_state") a dict the caller has just created, which is the
\* next object of the heap.
KwChoices(f, fresh) ==
    {Absent} \cup {IntVal(n) : n \in 1..MaxVal}
             \cup (IF f = "_shared_state" THEN {DictRef(fresh)} ELSE {})

Kwargs(fresh) ==
    {kw \in [FieldNames -> {Absent, DictRef(fresh)} \cup {IntVal(n) : n \in 1..MaxVal}] :
        \A f \in FieldNames : kw[f] \in KwChoices(f, fresh)}

BorgIdle ==
    /\ dicts = <<EmptyDict>>
    /\ borgs = <<>>
    /\ given = <<>>

\* One call Singleton1(**kwargs).
Singleton1Call ==
    /\ Len(given) < MaxBorgs
    /\ \E kw \in Kwargs(Len(dicts) + 1) :
         LET passesDict == \E f \in FieldNames : kw[f].tag = "dict"
             heap == IF passesDict THEN Append(dicts, EmptyDict) ELSE dicts
             r == Singleton1_init(heap, kw)
         IN  /\ dicts' = r.heap
             /\ given' = Append(given, [kwargs |-> kw, exc |-> r.exc])
             /\ borgs' = IF r.exc = ""
                         THEN Append(borgs, [id |-> Len(given) + 1, dict |-> r.dict])
                         ELSE borgs
    /\ UNCHANGED <<singletonVars, builderVars, petVars, lookupVars, familyVars>>

BorgNext == Singleton1Call

(***************************************************************************)
(* singleton_pattern.py: class Singleton                                   *)
(***************************************************************************)

\* Constructor arguments, by what object.__new__ / object.__init__ look at:
\* the number of positional and of keyword arguments.
ArgShapes == [npos : 0..MaxArgs, nkw : 0..MaxArgs]

ExcessArgs(args) == args.npos > 0 \/ args.nkw > 0

\* Truth value of an object reference: None is false, a plain object
\* (no __bool__, no __len__) is true.
Truthy(ref) == ref # None

\* object.__new__(cls, *args, **kwargs) reached through super() from a class
\* that overrides __new__ and not __init__: excess arguments are a TypeError.
object_new(n, args) ==
    IF ExcessArgs(args)
    THEN [exc |-> "TypeError", ref |-> None, constructed |-> n]
    ELSE [exc |-> "", ref |-> n + 1, constructed |-> n + 1]

\* object.__init__(self, *args, **kwargs) for a class that overrides __new__
\* and not __init__: excess arguments are accepted.
object_init(args) == [exc |-> ""]

\* Singleton.__new__ run without interruption.
Singleton_new(inst, n, args) ==
    IF ~Truthy(inst)
    THEN LET made == object_new(n, args)
         IN  IF made.exc # ""
             THEN [exc |-> made.exc, instance |-> inst,
                   constructed |-> made.constructed, ret |-> None]
             ELSE [exc |-> "", instance |-> made.ref,
                   constructed |-> made.constructed, ret |-> made.ref]
    ELSE [exc |-> "", instance |-> inst, constructed |-> n, ret |-> inst]

\* type.__call__: Singleton(*args, **kwargs) = __new__ then __init__.
Singleton_call(inst, n, args) ==
    LET r == Singleton_new(inst, n, args)
    IN  IF r.exc # "" THEN r
        ELSE [r EXCEPT !.exc = object_init(args).exc]

SingletonIdle ==
    /\ instance = None
    /\ constructed = 0
    /\ calls = <<>>
    /\ pc = [t \in 1..NThreads |-> "idle"]
    /\ tmp = [t \in 1..NThreads |-> None]
    /\ result = [t \in 1..NThreads |-> None]

\* One sequential call Singleton(*args, **kwargs).
SingletonCall ==
    /\ Len(calls) < MaxCalls
    /\ \E args \in ArgShapes :
         LET r == Singleton_call(instance, constructed, args)
         IN  /\ instance' = r.instance
             /\ constructed' = r.constructed
             /\ calls' = Append(calls, [args |-> args, exc |-> r.exc, ret |-> r.ret])
    /\ UNCHANGED <<pc, tmp, result>>
    /\ UNCHANGED <<borgVars, builderVars, petVars, lookupVars, familyVars>>

SingletonNext == SingletonCall


(***************************************************************************)
(* Singleton.__new__ under threads: between two bytecodes of __new__ the   *)
(* interpreter may switch threads, so the test, the allocation, the store  *)
(* and the final load of cls._instance are separate steps.                 *)
(***************************************************************************)
Threads == 1..NThreads

\* A thread enters Singleton() and evaluates `if not cls._instance`.
NewCheck(t) ==
    /\ pc[t] = "idle"
    /\ pc' = [pc EXCEPT ![t] = IF ~Truthy(instance) THEN "create" ELSE "return"]
    /\ UNCHANGED <<instance, constructed, calls, tmp, result>>
    /\ UNCHANGED <<borgVars, builderVars, petVars, lookupVars, familyVars>>

\* super(Singleton, cls).__new__(cls): a new object, not yet stored.
NewCreate(t) ==
    /\ pc[t] = "create"
    /\ LET made == object_new(constructed, [npos |-> 0, nkw |-> 0])
       IN  /\ constructed' = made.constructed
           /\ tmp' = [tmp EXCEPT ![t] = made.ref]
    /\ pc' = [pc EXCEPT ![t] = "store"]
    /\ UNCHANGED <<instance, calls, result>>
    /\ UNCHANGED <<borgVars, builderVars, petVars, lookupVars, familyVars>>

\* cls._instance = <the new object>
NewStore(t) ==
    /\ pc[t] = "store"
    /\ instance' = tmp[t]
    /\ pc' = [pc EXCEPT ![t] = "return"]
    /\ UNCHANGED <<constructed, calls, tmp, result>>
    /\ UNCHANGED <<borgVars, builderVars, petVars, lookupVars, familyVars>>

\* return cls._instance
NewReturn(t) ==
    /\ pc[t] = "return"
    /\ result' = [result EXCEPT ![t] = instance]
    /\ pc' = [pc EXCEPT ![t] = "done"]
    /\ UNCHANGED <<instance, constructed, calls, tmp>>
    /\ UNCHANGED <<borgVars, builderVars, petVars, lookupVars, familyVars>>

ThreadsNext ==
    \E t \in Threads : NewCheck(t) \/ NewCreate(t) \/ NewStore(t) \/ NewReturn(t)



(***************************************************************************)
(* builder.py: class House, class HouseBuilder                             *)
(***************************************************************************)

Foundations == {"concrete", "stone"}
Structures == {"wood"}
Roofs == {"shingles"}

\* The reference of the HouseBuilder object: the first object of the heap.
BuilderRef == 1

FieldsOf(o) ==
    [foundation |-> o.foundation, structure |-> o.structure, roof |-> o.roof,
     has_garage |-> o.has_garage, has_swimming_pool |-> o.has_swimming_pool]

\* House.__init__
House_init(foundation, structure, roof, has_garage, has_swimming_pool) ==
    [cls |-> "House", foundation |-> foundation, structure |-> structure,
     roof |-> roof, has_garage |-> has_garage,
     has_swimming_pool |-> has_swimming_pool]

\* HouseBuilder.__init__
HouseBuilder_init(foundation, structure, roof) ==
    [cls |-> "HouseBuilder", foundation |-> foundation, structure |-> structure,
     roof |-> roof, has_garage |-> FALSE, has_swimming_pool |-> FALSE]

\* HouseBuilder.add_garage: the heap afterwards and the reference returned.
add_garage(heap, self, has_garage) ==
    [exc |-> "", heap |-> [heap EXCEPT ![self].has_garage = has_garage],
     ret |-> self]

\* The slip of writing the other step's field.
add_swimming_pool_wrong_field(heap, self, has_swimming_pool) ==
    [exc |-> "", heap |-> [heap EXCEPT ![self].has_garage = has_swimming_pool],
     ret |-> self]

\* HouseBuilder.add_swimming_pool
add_swimming_pool(heap, self, has_swimming_pool) ==
    [exc |-> "",
     heap |-> [heap EXCEPT ![self].has_swimming_pool = has_swimming_pool],
     ret |-> self]

\* The slip of handing out the builder itself instead of a new House.
build_returns_self(heap, self) ==
    [exc |-> "", heap |-> heap, ret |-> self]

\* HouseBuilder.build: a new House object made from the builder's fields.
build(heap, self) ==
    [exc |-> "",
     heap |-> Append(heap, House_init(heap[self].foundation, heap[self].structure,
                                      heap[self].roof, heap[self].has_garage,
                                      heap[self].has_swimming_pool)),
     ret |-> Len(heap) + 1]

NoFields == FieldsOf(HouseBuilder_init("", "", ""))

BuilderIdle ==
    /\ objs = <<>>
    /\ hist = <<>>
    /\ built = <<>>
    /\ lastPre = NoFields

\* builder = HouseBuilder(foundation, structure, roof)
NewBuilder ==
    /\ objs = <<>>
    /\ \E f \in Foundations, s \in Structures, r \in Roofs :
         objs' = <<HouseBuilder_init(f, s, r)>>
    /\ UNCHANGED <<hist, built, lastPre>>
    /\ UNCHANGED <<singletonVars, borgVars, petVars, lookupVars, familyVars>>

\* What every call on the builder records.
Record(op, v, r) ==
    /\ objs' = r.heap
    /\ hist' = Append(hist, [op |-> op, v |-> v, exc |-> r.exc, ret |-> r.ret])
    /\ lastPre' = FieldsOf(objs[BuilderRef])

\* builder.add_garage(v)
AddGarage ==
    /\ objs # <<>> /\ Len(hist) < MaxSteps
    /\ \E v \in BOOLEAN : Record("add_garage", v, add_garage(objs, BuilderRef, v))
    /\ UNCHANGED built
    /\ UNCHANGED <<singletonVars, borgVars, petVars, lookupVars, familyVars>>

\* builder.add_swimming_pool(v)
AddSwimmingPool ==
    /\ objs # <<>> /\ Len(hist) < MaxSteps
    /\ \E v \in BOOLEAN :
         Record("add_swimming_pool", v, add_swimming_pool(objs, BuilderRef, v))
    /\ UNCHANGED built
    /\ UNCHANGED <<singletonVars, borgVars, petVars, lookupVars, familyVars>>

\* builder.build()
Build ==
    /\ objs # <<>> /\ Len(hist) < MaxSteps
    /\ LET r == build(objs, BuilderRef)
       IN  /\ Record("build", FALSE, r)
           /\ built' = Append(built, [ref |-> r.ret, at |-> Len(hist) + 1,
                                      pre |-> FieldsOf(objs[BuilderRef])])
    /\ UNCHANGED <<singletonVars, borgVars, petVars, lookupVars, familyVars>>

BuilderNext == NewBuilder \/ AddGarage \/ AddSwimmingPool \/ Build

(***************************************************************************)
(* Objects, classes and calls of factory.py and abstract__factory.py.      *)
(* factory.py binds the names Dog, Cat, Pet and get_pet more than once, so *)
(* its classes and functions are named with the line of their definition;  *)
(* the classes of abstract__factory.py carry the prefix "af.".             *)
(***************************************************************************)

\* An instance: its class and the attributes its __init__ has set.
Obj(cls, attrs, name, breed, age, sound) ==
    [cls |-> cls, attrs |-> attrs, name |-> name, breed |-> breed,
     age |-> age, sound |-> sound]

NoneObj == Obj("NoneType", {}, "", "", 0, "")

\* The outcome of a call: the exception raised ("" for none), or the value
\* returned (None, an object, a pair of objects or a string, kept as its
\* parts), what it printed, and the identity of the object returned.
Raise(e) ==
    [exc |-> e, kind |-> "None", obj |-> NoneObj, obj2 |-> NoneObj,
     text |-> <<>>, printed |-> <<>>, ref |-> 0]
RetNone(printed) == [Raise("") EXCEPT !.printed = printed]
RetObj(o) == [Raise("") EXCEPT !.kind = "object", !.obj = o]
RetPair(o1, o2) == [Raise("") EXCEPT !.kind = "tuple", !.obj = o1, !.obj2 = o2]
RetStr(t) == [Raise("") EXCEPT !.kind = "str", !.text = t]

\* class C(B): the base of each class.
Base(c) ==
    CASE c \in {"Dog@59", "Cat@63"} -> "Pet@49"
      [] c \in {"DogFactory@77", "CatFactory@81"} -> "PetFactory@68"
      [] c \in {"af.FriendlyPetFactory", "af.GuardPetFactory"} -> "af.PetFactory"
      [] c \in {"af.FriendlyDog", "af.GuardDog"} -> "af.Dog"
      [] c \in {"af.FriendlyCat", "af.GuardCat"} -> "af.Cat"
      [] OTHER -> "object"

\* The methods each class body defines.
Defines(c) ==
    CASE c \in {"Pet@49", "Dog@99", "Cat@106", "Pet@126", "af.Dog", "af.Cat"}
            -> {"__init__", "speak"}
      [] c \in {"Dog@59", "Cat@63", "af.FriendlyDog", "af.GuardDog",
                "af.FriendlyCat", "af.GuardCat"} -> {"speak"}
      [] c = "PetFactory@68" -> {"get_pet", "display_pet"}
      [] c \in {"DogFactory@77", "CatFactory@81"} -> {"get_pet"}
      [] c \in {"af.PetFactory", "af.FriendlyPetFactory", "af.GuardPetFactory"}
            -> {"create_dog", "create_cat"}
      [] OTHER -> {}

\* Method lookup along the base classes: the class whose body defines m.
RECURSIVE Resolve(_, _)
Resolve(c, m) ==
    IF c = "object" THEN "object"
    ELSE IF m \in Defines(c) THEN c
    ELSE Resolve(Base(c), m)

\* cls(*args): the __init__ found for cls decides how many arguments it takes
\* and which attributes it sets. An unbound name is a NameError.
Instantiate(cls, args) ==
    LET init == Resolve(cls, "__init__")
    IN  CASE cls = "unbound" -> Raise("NameError")
          [] init \in {"Pet@49", "af.Dog", "af.Cat"} ->
                IF Len(args) = 3
                THEN RetObj(Obj(cls, {"name", "breed", "age"},
                                args[1], args[2], args[3], ""))
                ELSE Raise("TypeError")
          [] init \in {"Dog@99", "Cat@106"} ->
                IF Len(args) = 1
                THEN RetObj(Obj(cls, {"name"}, args[1], "", 0, ""))
                ELSE Raise("TypeError")
          [] init = "Pet@126" ->
                IF Len(args) = 2
                THEN RetObj(Obj(cls, {"name", "sound"}, args[1], "", 0, args[2]))
                ELSE Raise("TypeError")
          [] OTHER ->
                IF Len(args) = 0
                THEN RetObj(Obj(cls, {}, "", "", 0, ""))
                ELSE Raise("TypeError")

\* f"... I'm {self.name}, a {self.age}-year-old {self.breed}."
Introduce(greeting, self) ==
    RetStr(<<greeting, " I'm ", self.name, ", a ", ToString(self.age),
             "-year-old ", self.breed, ".">>)

\* factory.py, first section
F_Pet_speak(self) == Raise("NotImplementedError")
F_Dog_speak(self) == Introduce("woof!", self)
F_Cat_speak(self) == Introduce("meow!", self)
F_PetFactory_get_pet(g, self) == Raise("NotImplementedError")
\* Dog and Cat are looked up in the module's globals when the call is made.
F_DogFactory_get_pet(g, self) == Instantiate(g["Dog"], <<"Jimmy", "Golden Retriever", 2>>)
F_CatFactory_get_pet(g, self) == Instantiate(g["Cat"], <<"Tom", "Persian", 3>>)

\* factory.py, second and third section
F_Dog2_speak(self) == RetStr(<<"woof!">>)
F_Cat2_speak(self) == RetStr(<<"Meow!">>)
F_Pet2_speak(self) == RetStr(<<self.sound>>)

\* abstract__factory.py
AF_PetFactory_create_dog(self) == Raise("NotImplementedError")
AF_PetFactory_create_cat(self) == Raise("NotImplementedError")
AF_FriendlyPetFactory_create_dog(self) ==
    Instantiate("af.FriendlyDog", <<"Jimmy", "Golden Retriever", 2>>)
AF_FriendlyPetFactory_create_cat(self) ==
    Instantiate("af.FriendlyCat", <<"Tom", "Persian", 3>>)
AF_GuardPetFactory_create_dog(self) ==
    Instantiate("af.GuardDog", <<"Rex", "German Shepherd", 4>>)
\* The slip of copying the friendly factory's line into the guard factory.
AF_GuardPetFactory_create_cat_copied(self) ==
    Instantiate("af.FriendlyCat", <<"Tom", "Persian", 3>>)
AF_GuardPetFactory_create_cat(self) ==
    Instantiate("af.GuardCat", <<"Whiskers", "Siamese", 5>>)
AF_Dog_speak(self) == Raise("NotImplementedError")
AF_Cat_speak(self) == Raise("NotImplementedError")
AF_FriendlyDog_speak(self) == Introduce("woof, I love you!", self)
AF_GuardDog_speak(self) == Introduce("woof, stay back!", self)
AF_FriendlyCat_speak(self) == Introduce("meow, purr.", self)
AF_GuardCat_speak(self) == Introduce("meow, beware!", self)

RECURSIVE CallMethod(_, _, _)

\* PetFactory.display_pet (factory.py): an exception of get_pet or of speak
\* leaves before the print.
F_PetFactory_display_pet(g, self) ==
    LET pet == CallMethod(g, self, "get_pet")
    IN  IF pet.exc # "" THEN pet
        ELSE LET said == CallMethod(g, pet.obj, "speak")
             IN  IF said.exc # "" THEN said
                 ELSE RetNone(<<"The pet says: ">> \o said.text)

\* self.m(): the method found for the class of self, run with the module
\* globals g.
CallMethod(g, self, m) ==
    LET d == Resolve(self.cls, m)
    IN  CASE d = "Pet@49" /\ m = "speak" -> F_Pet_speak(self)
          [] d = "Dog@59" /\ m = "speak" -> F_Dog_speak(self)
          [] d = "Cat@63" /\ m = "speak" -> F_Cat_speak(self)
          [] d = "Dog@99" /\ m = "speak" -> F_Dog2_speak(self)
          [] d = "Cat@106" /\ m = "speak" -> F_Cat2_speak(self)
          [] d = "Pet@126" /\ m = "speak" -> F_Pet2_speak(self)
          [] d = "PetFactory@68" /\ m = "get_pet" -> F_PetFactory_get_pet(g, self)
          [] d = "PetFactory@68" /\ m = "display_pet" -> F_PetFactory_display_pet(g, self)
          [] d = "DogFactory@77" /\ m = "get_pet" -> F_DogFactory_get_pet(g, self)
          [] d = "CatFactory@81" /\ m = "get_pet" -> F_CatFactory_get_pet(g, self)
          [] d = "af.PetFactory" /\ m = "create_dog" -> AF_PetFactory_create_dog(self)
          [] d = "af.PetFactory" /\ m = "create_cat" -> AF_PetFactory_create_cat(self)
          [] d = "af.FriendlyPetFactory" /\ m = "create_dog" -> AF_FriendlyPetFactory_create_dog(self)
          [] d = "af.FriendlyPetFactory" /\ m = "create_cat" -> AF_FriendlyPetFactory_create_cat(self)
          [] d = "af.GuardPetFactory" /\ m = "create_dog" -> AF_GuardPetFactory_create_dog(self)
          [] d = "af.GuardPetFactory" /\ m = "create_cat" -> AF_GuardPetFactory_create_cat(self)
          [] d = "af.Dog" /\ m = "speak" -> AF_Dog_speak(self)
          [] d = "af.Cat" /\ m = "speak" -> AF_Cat_speak(self)
          [] d = "af.FriendlyDog" /\ m = "speak" -> AF_FriendlyDog_speak(self)
          [] d = "af.GuardDog" /\ m = "speak" -> AF_GuardDog_speak(self)
          [] d = "af.FriendlyCat" /\ m = "speak" -> AF_FriendlyCat_speak(self)
          [] d = "af.GuardCat" /\ m = "speak" -> AF_GuardCat_speak(self)
          [] OTHER -> Raise("AttributeError")

\* get_pet(factory) of abstract__factory.py
AF_get_pet(factory) ==
    LET dog == CallMethod(<<>>, factory, "create_dog")
    IN  IF dog.exc # "" THEN dog
        ELSE LET cat == CallMethod(<<>>, factory, "create_cat")
             IN  IF cat.exc # "" THEN cat
                 ELSE RetPair(dog.obj, cat.obj)

(***************************************************************************)
(* factory.py: the two get_pet functions and the module body               *)
(***************************************************************************)

\* The argument of a get_pet call: a key, or nothing (the default applies).
Keys == {"dog", "cat", "fish", "Dog"}
NoArg == [given |-> FALSE, key |-> ""]
CallArgs == {NoArg} \cup [given : {TRUE}, key : Keys]

\* def get_pet(pet='dog'), the dict.get(pet, None) variant
get_pet_none(g, a) ==
    LET pet == IF a.given THEN a.key ELSE "dog"
        dog == Instantiate(g["Dog"], <<"Jimmy">>)
        cat == Instantiate(g["Cat"], <<"Tom">>)
    IN  IF dog.exc # "" THEN dog
        ELSE IF cat.exc # "" THEN cat
        ELSE IF pet = "dog" THEN dog
        ELSE IF pet = "cat" THEN cat
        ELSE RetNone(<<>>)

\* The slip of building the dict once and handing out its entries: the
\* objects returned are the same on every call.
get_pet_default_cached(g, a, next) ==
    LET pet_type == IF a.given THEN a.key ELSE "dog"
        dog == Instantiate(g["Pet"], <<"Jimmy", "woof!">>)
        cat == Instantiate(g["Pet"], <<"Tom", "Meow!">>)
        other == Instantiate(g["Pet"], <<"Unknown", "Silent">>)
    IN  IF pet_type = "dog" THEN [dog EXCEPT !.ref = 1]
        ELSE IF pet_type = "cat" THEN [cat EXCEPT !.ref = 2]
        ELSE [other EXCEPT !.ref = 3]

\* def get_pet(pet_type='dog'), the dict.get(pet_type, Pet("Unknown", "Silent"))
\* variant. Every call evaluates the three Pet(...) expressions in order, so
\* the three objects are the next three allocated after `next`.
get_pet_default(g, a, next) ==
    LET pet_type == IF a.given THEN a.key ELSE "dog"
        dog == Instantiate(g["Pet"], <<"Jimmy", "woof!">>)
        cat == Instantiate(g["Pet"], <<"Tom", "Meow!">>)
        other == Instantiate(g["Pet"], <<"Unknown", "Silent">>)
    IN  IF dog.exc # "" THEN dog
        ELSE IF cat.exc # "" THEN cat
        ELSE IF other.exc # "" THEN other
        ELSE IF pet_type = "dog" THEN [dog EXCEPT !.ref = next + 1]
        ELSE IF pet_type = "cat" THEN [cat EXCEPT !.ref = next + 2]
        ELSE [other EXCEPT !.ref = next + 3]

\* The class and def statements of factory.py in the order the module runs
\* them: the global name each binds and the object it binds it to.
ModuleBody ==
    << [name |-> "Pet", obj |-> "Pet@49"],
       [name |-> "Dog", obj |-> "Dog@59"],
       [name |-> "Cat", obj |-> "Cat@63"],
       [name |-> "PetFactory", obj |-> "PetFactory@68"],
       [name |-> "DogFactory", obj |-> "DogFactory@77"],
       [name |-> "CatFactory", obj |-> "CatFactory@81"],
       [name |-> "Dog", obj |-> "Dog@99"],
       [name |-> "Cat", obj |-> "Cat@106"],
       [name |-> "get_pet", obj |-> "get_pet@113"],
       [name |-> "Pet", obj |-> "Pet@126"],
       [name |-> "get_pet", obj |-> "get_pet@134"] >>

GlobalNames == {ModuleBody[i].name : i \in 1..Len(ModuleBody)}

\* A class or function exists once its statement has run.
Defined(obj) == \E i \in 1..fpc : ModuleBody[i].obj = obj

NoCall == [callee |-> "", method |-> "", arg |-> NoArg, out |-> Raise("")]

PetsIdle ==
    /\ fpc = 0
    /\ globals = [n \in GlobalNames |-> "unbound"]
    /\ lastCall = NoCall
    /\ got = <<>>
    /\ nextRef = 0
    /\ products = <<>>

\* The module runs its next class or def statement.
ExecStatement ==
    /\ fpc < Len(ModuleBody)
    /\ fpc' = fpc + 1
    /\ globals' = [globals EXCEPT ![ModuleBody[fpc + 1].name] = ModuleBody[fpc + 1].obj]
    /\ UNCHANGED <<lastCall, got, nextRef, products>>
    /\ UNCHANGED <<singletonVars, borgVars, builderVars>>

FactoryClasses == {"PetFactory@68", "DogFactory@77", "CatFactory@81"}
ProductClasses == {"Pet@49", "Dog@59", "Cat@63", "Dog@99", "Cat@106", "Pet@126"}
AfFactoryClasses == {"af.PetFactory", "af.FriendlyPetFactory", "af.GuardPetFactory"}
AfProductClasses == {"af.Dog", "af.Cat", "af.FriendlyDog", "af.GuardDog",
                     "af.FriendlyCat", "af.GuardCat"}

\* Constructor arguments that fit the __init__ of a product class.
SampleArgs(cls) ==
    CASE Resolve(cls, "__init__") \in {"Dog@99", "Cat@106"} -> <<"Jimmy">>
      [] Resolve(cls, "__init__") = "Pet@126" -> <<"Jimmy", "woof!">>
      [] OTHER -> <<"Jimmy", "Golden Retriever", 2>>

PetFrame ==
    /\ UNCHANGED <<fpc, globals, got, nextRef, products>>
    /\ UNCHANGED <<singletonVars, borgVars, builderVars>>

\* factory().get_pet() or factory().display_pet() on a factory class of
\* factory.py, as the module does at lines 86-90.
CallFactory ==
    /\ \E cls \in FactoryClasses, m \in {"get_pet", "display_pet"} :
         /\ Defined(cls)
         /\ lastCall' = [callee |-> cls, method |-> m, arg |-> NoArg,
                         out |-> CallMethod(globals, Instantiate(cls, <<>>).obj, m)]
    /\ PetFrame

\* cls(...).speak() on a product class of factory.py
CallSpeak ==
    /\ \E cls \in ProductClasses :
         /\ Defined(cls)
         /\ lastCall' = [callee |-> cls, method |-> "speak", arg |-> NoArg,
                         out |-> CallMethod(globals, Instantiate(cls, SampleArgs(cls)).obj, "speak")]
    /\ PetFrame

\* get_pet(...) of line 113, as the module does at lines 117-118
CallGetPet ==
    /\ Defined("get_pet@113")
    /\ \E a \in CallArgs :
         lastCall' = [callee |-> "get_pet@113", method |-> "", arg |-> a,
                      out |-> get_pet_none(globals, a)]
    /\ PetFrame

\* factory.create_dog() or factory.create_cat() on a factory of
\* abstract__factory.py
AfCallCreate ==
    /\ \E cls \in AfFactoryClasses, m \in {"create_dog", "create_cat"} :
         lastCall' = [callee |-> cls, method |-> m, arg |-> NoArg,
                      out |-> CallMethod(<<>>, Instantiate(cls, <<>>).obj, m)]
    /\ PetFrame

\* cls(...).speak() on a product class of abstract__factory.py
AfCallSpeak ==
    /\ \E cls \in AfProductClasses :
         lastCall' = [callee |-> cls, method |-> "speak", arg |-> NoArg,
                      out |-> CallMethod(<<>>, Instantiate(cls, SampleArgs(cls)).obj, "speak")]
    /\ PetFrame

PetsNext ==
    ExecStatement \/ CallFactory \/ CallSpeak \/ CallGetPet \/ AfCallCreate \/ AfCallSpeak

\* get_pet(...) of line 134, as the module does at lines 141-142
LookupCall ==
    /\ Defined("get_pet@134")
    /\ Len(got) < MaxGets
    /\ \E a \in CallArgs :
         LET r == get_pet_default(globals, a, nextRef)
         IN  /\ got' = Append(got, [arg |-> a, out |-> r,
                                   said |-> CallMethod(globals, r.obj, "speak")])
             /\ nextRef' = IF r.exc = "" THEN nextRef + 3 ELSE nextRef
    /\ UNCHANGED <<fpc, globals, lastCall, products>>
    /\ UNCHANGED <<singletonVars, borgVars, builderVars>>

LookupNext == ExecStatement \/ LookupCall

\* factory.create_dog(), factory.create_cat() or get_pet(factory) with one of
\* the factories of abstract__factory.py
FamilyCall ==
    /\ Len(products) < MaxProducts
    /\ \E cls \in AfFactoryClasses, op \in {"create_dog", "create_cat", "get_pet"} :
         LET factory == Instantiate(cls, <<>>).obj
         IN  products' = Append(products,
                 [factory |-> cls, op |-> op,
                  out |-> IF op = "get_pet" THEN AF_get_pet(factory)
                          ELSE CallMethod(<<>>, factory, op)])
    /\ UNCHANGED <<fpc, globals, lastCall, got, nextRef>>
    /\ UNCHANGED <<singletonVars, borgVars, builderVars>>

FamilyNext == FamilyCall

(***************************************************************************)
(* Specifications                                                          *)
(***************************************************************************)
Init == SingletonIdle /\ BorgIdle /\ BuilderIdle /\ PetsIdle

SpecSingleton == Init /\ [][SingletonNext]_vars
SpecSingletonThreads == Init /\ [][ThreadsNext]_vars
SpecBorg == Init /\ [][BorgNext]_vars
SpecBuilder == Init /\ [][BuilderNext]_vars
SpecPets == Init /\ [][PetsNext]_vars
SpecLookup == Init /\ [][LookupNext]_vars
SpecFamilies == Init /\ [][FamilyNext]_vars

Next == SingletonNext \/ ThreadsNext \/ BorgNext \/ BuilderNext
        \/ PetsNext \/ LookupNext \/ FamilyNext
Spec == Init /\ [][Next]_vars

(***************************************************************************)
(* Properties                                                              *)
(***************************************************************************)

\* C1: in any sequence of Singleton(...) calls, whatever arguments they pass,
\* the first call constructs and stores the instance and every later call
\* returns that same object without constructing again.
C1_FirstCallConstructsAllShare ==
    Len(calls) >= 1 =>
        /\ calls[1].exc = ""
        /\ calls[1].ret # None
        /\ instance = calls[1].ret
        /\ constructed = 1
        /\ \A i \in 1..Len(calls) : calls[i].exc = "" /\ calls[i].ret = calls[1].ret

\* C2: when several threads call Singleton() for the first time concurrently,
\* at most one instance is ever constructed and all callers receive the same
\* object.
C2_AtMostOneConstruction ==
    /\ constructed <= 1
    /\ \A t, u \in Threads :
         pc[t] = "done" /\ pc[u] = "done" => result[t] = result[u]

\* The field sets of the constructions that completed, merged in order: the
\* later construction's value wins.
RECURSIVE UnionOfGiven(_)
UnionOfGiven(gs) ==
    IF gs = <<>> THEN EmptyDict
    ELSE LET before == UnionOfGiven(SubSeq(gs, 1, Len(gs) - 1))
             last == gs[Len(gs)]
         IN  IF last.exc = "" THEN dict_update(before, last.kwargs) ELSE before

\* C3: after any sequence of constructions Singleton1(**F1), Singleton1(**F2),
\* ..., every instance created so far observes one and the same state mapping,
\* the union of all given field sets with the later value winning, and the
\* instances are distinct objects.
C3_AllObserveUnion ==
    /\ \A i \in 1..Len(borgs) : dicts[borgs[i].dict] = UnionOfGiven(given)
    /\ \A i, j \in 1..Len(borgs) : i # j => borgs[i].id # borgs[j].id

\* C4: after build() has been called on a HouseBuilder, any later call of
\* add_garage, add_swimming_pool or build() on it fails with
\* BuilderFinalizedError.
C4_CallsAfterBuildFail ==
    \A i, j \in 1..Len(hist) :
        j < i /\ hist[j].op = "build" => hist[i].exc = "BuilderFinalizedError"

\* The value the last call of step `op` in history h passed, False when the
\* step was never called.
RECURSIVE LastWrite(_, _)
LastWrite(h, op) ==
    IF h = <<>> THEN FALSE
    ELSE IF h[Len(h)].op = op THEN h[Len(h)].v
    ELSE LastWrite(SubSeq(h, 1, Len(h) - 1), op)

\* C5: add_garage(v) and add_swimming_pool(v) each set exactly their own field
\* to v, leave the other four fields unchanged and return the same builder;
\* a built House carries, for each optional field, the value of the last call
\* of that step before the build, or False when the step was never called.
C5_StepsSetOwnFieldLastWins ==
    /\ hist # <<>> =>
         LET last == hist[Len(hist)]
         IN  /\ last.op = "add_garage" =>
                  /\ FieldsOf(objs[BuilderRef]) = [lastPre EXCEPT !.has_garage = last.v]
                  /\ last.exc = "" /\ last.ret = BuilderRef
             /\ last.op = "add_swimming_pool" =>
                  /\ FieldsOf(objs[BuilderRef]) = [lastPre EXCEPT !.has_swimming_pool = last.v]
                  /\ last.exc = "" /\ last.ret = BuilderRef
    /\ \A i \in 1..Len(built) :
         LET before == SubSeq(hist, 1, built[i].at - 1)
             house == objs[built[i].ref]
         IN  /\ house.has_garage = LastWrite(before, "add_garage")
             /\ house.has_swimming_pool = LastWrite(before, "add_swimming_pool")

\* C5's case: a House built after add_garage(True) and then add_garage(False),
\* with add_swimming_pool called as well.
C5_Witness ==
    \E i \in 1..Len(built) : \E j, k, l \in 1..Len(hist) :
        /\ j < k /\ k < built[i].at /\ l < built[i].at
        /\ hist[j].op = "add_garage" /\ hist[j].v = TRUE
        /\ hist[k].op = "add_garage" /\ hist[k].v = FALSE
        /\ hist[l].op = "add_swimming_pool" /\ hist[l].v = TRUE
        /\ objs[built[i].ref].has_garage = FALSE
        /\ objs[built[i].ref].has_swimming_pool = TRUE

\* C6: get_pet (the lookup of line 113) called with a key that is not
\* registered fails with UnknownKeyError; no fallback value is returned.
C6_MissingKeyRaises ==
    (lastCall.callee = "get_pet@113" /\ lastCall.arg.given
        /\ lastCall.arg.key \notin {"dog", "cat"})
    => lastCall.out.exc = "UnknownKeyError"

\* The family a factory or product class belongs to.
Family(cls) ==
    CASE cls \in {"af.FriendlyPetFactory", "af.FriendlyDog", "af.FriendlyCat"} -> "friendly"
      [] cls \in {"af.GuardPetFactory", "af.GuardDog", "af.GuardCat"} -> "guard"
      [] OTHER -> "none"

IsDog(o) == o.cls \in {"af.FriendlyDog", "af.GuardDog"}
IsCat(o) == o.cls \in {"af.FriendlyCat", "af.GuardCat"}

\* C7: for any number and ordering of create_dog / create_cat / get_pet calls
\* on the two concrete factories, every product a factory returns belongs to
\* that factory's family, and get_pet(factory) returns a dog and a cat of the
\* same family.
C7_FamilyConsistency ==
    \A i \in 1..Len(products) :
        LET p == products[i]
        IN  Family(p.factory) # "none" =>
              /\ p.out.exc = ""
              /\ p.op = "create_dog" =>
                   /\ p.out.kind = "object" /\ IsDog(p.out.obj)
                   /\ Family(p.out.obj.cls) = Family(p.factory)
              /\ p.op = "create_cat" =>
                   /\ p.out.kind = "object" /\ IsCat(p.out.obj)
                   /\ Family(p.out.obj.cls) = Family(p.factory)
              /\ p.op = "get_pet" =>
                   /\ p.out.kind = "tuple" /\ IsDog(p.out.obj) /\ IsCat(p.out.obj2)
                   /\ Family(p.out.obj.cls) = Family(p.factory)
                   /\ Family(p.out.obj2.cls) = Family(p.factory)

\* C7's case: a guard cat created between two uses of the friendly factory,
\* one of them get_pet.
C7_Witness ==
    /\ Len(products) = 3
    /\ products[1].factory = "af.FriendlyPetFactory" /\ products[1].op = "get_pet"
    /\ products[2].factory = "af.GuardPetFactory" /\ products[2].op = "create_cat"
    /\ products[2].out.obj.name = "Whiskers"
    /\ products[3].factory = "af.FriendlyPetFactory" /\ products[3].op = "create_dog"

\* What the default-returning get_pet is to return for an argument: name and
\* sound.
ExpectedPet(a) ==
    LET key == IF a.given THEN a.key ELSE "dog"
    IN  CASE key = "dog" -> <<"Jimmy", "woof!">>
          [] key = "cat" -> <<"Tom", "Meow!">>
          [] OTHER -> <<"Unknown", "Silent">>

\* C8: the default-returning get_pet never fails; for 'dog' and 'cat' it
\* returns that key's product, with no argument the 'dog' product, for every
\* other key Pet('Unknown', 'Silent'); each call returns a freshly constructed
\* object, so two calls never return the same object.
C8_DefaultLookupFresh ==
    /\ \A i \in 1..Len(got) :
         /\ got[i].out.exc = ""
         /\ got[i].out.kind = "object"
         /\ got[i].out.obj.cls = "Pet@126"
         /\ <<got[i].out.obj.name, got[i].out.obj.sound>> = ExpectedPet(got[i].arg)
         /\ got[i].said.exc = ""
         /\ got[i].said.text = <<ExpectedPet(got[i].arg)[2]>>
         /\ got[i].out.ref # 0
    /\ \A i, j \in 1..Len(got) : i # j => got[i].out.ref # got[j].out.ref

\* C8's case: the same key asked twice, and an unregistered key.
C8_Witness ==
    \E i, j, k \in 1..Len(got) :
        /\ i # j /\ got[i].arg = got[j].arg /\ got[i].arg.given
        /\ got[k].arg.given /\ got[k].arg.key = "fish"
        /\ got[k].out.obj.name = "Unknown"

\* The operations that are abstract stubs where they are found, and the
\* concrete variants that override them.
IsStubCall(c) ==
    \/ c.callee = "Pet@49" /\ c.method = "speak"
    \/ c.callee = "PetFactory@68" /\ c.method \in {"get_pet", "display_pet"}
    \/ c.callee = "af.PetFactory" /\ c.method \in {"create_dog", "create_cat"}
    \/ c.callee \in {"af.Dog", "af.Cat"} /\ c.method = "speak"

IsConcreteCall(c) ==
    /\ c.callee \in {"Dog@59", "Cat@63", "DogFactory@77", "CatFactory@81",
                     "af.FriendlyPetFactory", "af.GuardPetFactory",
                     "af.FriendlyDog", "af.GuardDog", "af.FriendlyCat", "af.GuardCat"}
    /\ c.method \in {"speak", "get_pet", "display_pet", "create_dog", "create_cat"}

\* C9: an un-overridden abstract operation fails with NotImplementedError
\* (display_pet on the base factory without printing), and on every concrete
\* variant the same operations succeed and return a value.
C9_StubsRaiseConcretesSucceed ==
    /\ IsStubCall(lastCall) =>
         lastCall.out.exc = "NotImplementedError" /\ lastCall.out.printed = <<>>
    /\ IsConcreteCall(lastCall) => lastCall.out.exc = ""

\* C10: the House build() returns carries the builder's fields as they were at
\* the instant of build(); later step calls on the builder change no field of
\* a House already built, and the results of two build() calls are distinct
\* objects, none of them the builder.
C10_BuildSnapshot ==
    /\ \A i \in 1..Len(built) :
         /\ objs[built[i].ref].cls = "House"
         /\ FieldsOf(objs[built[i].ref]) = built[i].pre
         /\ built[i].ref # BuilderRef
    /\ \A i, j \in 1..Len(built) : i # j => built[i].ref # built[j].ref

\* C10's case: two Houses built, and the builder changed after the first.
C10_Witness ==
    /\ Len(built) >= 2
    /\ FieldsOf(objs[BuilderRef]) # built[1].pre
    /\ built[2].pre # built[1].pre
    /\ hist[Len(hist)].op # "build"

====
